---------------------------- MODULE Spec2Model ----------------------------
(***************************************************************************)
(* dualZoneCli: the Console broker (src/user_input/structs.rs) and the     *)
(* two tasks that run() spawns over its channel (src/main.rs).             *)
(*                                                                         *)
(* Text is a sequence of one-character strings, so that trim() and         *)
(* eq_ignore_ascii_case() are computed character by character.             *)
(* A String used as a registry key (a plaintext name or a generated id) is *)
(* a number in 0..KeySpace-1; generate_id is a mixing function on them.    *)
(***************************************************************************)
EXTENDS Integers, Sequences, FiniteSets, TLC

\* ------------------------------------------------------------- bounds
\* Most read_line() results the line source delivers in one run.
MaxReads == 4
\* Most new_sender() calls when only the registry is exercised.
MaxRegistrations == 3
\* Most new_sender() calls made on a Console that is then run.
MaxHandles == 2
\* Most sends through handles plus read_line() results, when both occur.
MaxTraffic == 3
\* Size of the universe of key strings (names and generated ids).
KeySpace == 16
\* Most read_line() results when the line source is at end of input from
\* the start, one more than the channel holds.
MaxFloodReads == 101

\* ------------------------------------------------------------- text
\* channel(100): the capacity of the tokio mpsc channel.
CHANNEL_CAPACITY == 100

\* "USER_BREAK_$0uU"
USER_BREAK ==
    <<"U","S","E","R","_","B","R","E","A","K","_","$","0","u","U">>
\* "exit" and "quit"
EXIT == <<"e","x","i","t">>
QUIT == <<"q","u","i","t">>

UpperCase ==
    <<"A","B","C","D","E","F","G","H","I","J","K","L","M",
      "N","O","P","Q","R","S","T","U","V","W","X","Y","Z">>
LowerCase ==
    <<"a","b","c","d","e","f","g","h","i","j","k","l","m",
      "n","o","p","q","r","s","t","u","v","w","x","y","z">>

\* char::is_whitespace for the characters a line can hold here.
Whitespace == {" ", "\t", "\n", "\r"}

\* u8::to_ascii_lowercase
ToAsciiLower(c) ==
    IF \E i \in 1..26 : UpperCase[i] = c
    THEN LowerCase[CHOOSE i \in 1..26 : UpperCase[i] = c]
    ELSE c

\* str::eq_ignore_ascii_case
EqIgnoreAsciiCase(a, b) ==
    /\ Len(a) = Len(b)
    /\ \A i \in 1..Len(a) : ToAsciiLower(a[i]) = ToAsciiLower(b[i])

RECURSIVE TrimStart(_)
TrimStart(s) ==
    IF s # <<>> /\ Head(s) \in Whitespace THEN TrimStart(Tail(s)) ELSE s

RECURSIVE TrimEnd(_)
TrimEnd(s) ==
    IF s # <<>> /\ s[Len(s)] \in Whitespace
    THEN TrimEnd(SubSeq(s, 1, Len(s) - 1))
    ELSE s

\* A faulty variant of Trim: the line is used as read, newline included.
TrimNothing(s) == s

\* str::trim
Trim(s) == TrimEnd(TrimStart(s))

\* The guard of the first match arm of the input task (main.rs:62).
IsShutdownKeyword(input) ==
    \/ EqIgnoreAsciiCase(Trim(input), EXIT)
    \/ EqIgnoreAsciiCase(Trim(input), QUIT)

\* The test the output task applies to what recv() gave it (main.rs:98).
IsUserBreak(text) == EqIgnoreAsciiCase(Trim(text), USER_BREAK)

\* ------------------------------------------------------------- inputs
\* What the line source can hand to read_line(): the raw lines typed ...
HelloLine == <<"h","e","l","l","o","\n">>
WorldLine == <<"w","o","r","l","d","\n">>
ExitLine  == <<"e","x","i","t","\n">>
QuitLine  == <<" ","Q","u","I","T","\r","\n">>
\* ... a user line whose text is the sentinel, lower case, padded
BreakLine ==
    <<" ","u","s","e","r","_","b","r","e","a","k","_","$","0","u","u","\n">>
\* ... and end-of-input: read_line returns Ok(0) and leaves input empty.
EndOfInput == <<>>

RawLines == {HelloLine, WorldLine, ExitLine, QuitLine, BreakLine, EndOfInput}

ReadResults ==
    [kind : {"Ok"}, input : RawLines]
        \cup {[kind |-> "Interrupted", input |-> <<>>],
              [kind |-> "OtherError", input |-> <<>>]}

\* Plaintext names callers register, as key strings.
Names == {0, 4}

\* The payload sent through handles returned by new_sender.
PingText == <<"p","i","n","g">>
HandleTexts == {PingText}

\* SenderStatus values a caller passes to change_sender_status.
StoredStatuses == {"Authorized", "BlackListed", "NotAuthorized"}

\* ------------------------------------------------------------- state
VARIABLES
    phonebook,       \* Console.phonebook: id -> <<name, status>>
    Authorized,      \* Console.Authorized: id -> handle
    BlackListed,     \* Console.BlackListed: id -> handle
    minted,          \* names passed to new_sender, in call order; handle h
                     \* is the Sender cloned by the h-th call
    held,            \* handles returned by new_sender and not yet dropped
    call,            \* the last Console method called, its arguments and
                     \* what it reported
    queue,           \* messages buffered in the channel
    rx_closed,       \* the Receiver has been dropped
    enqueued,        \* every message the channel accepted, in order
    received,        \* every message recv() returned, in order
    run_state,       \* "init", "running", "returned"
    run_result,      \* what run() returned: "none" until it has, then "Ok"
    input_handle,    \* the input task: where it is
    output_handle,   \* the output task: where it is
    stop_requested,  \* each task's copy of stop_requested
    input,           \* the trimmed line the input task is sending
    linesRead,       \* every read_line() result, in order
    rendered,        \* every text the output task printed, in order
    screen           \* what the output zone shows

registry == <<phonebook, Authorized, BlackListed, minted, call>>
channel == <<queue, rx_closed, enqueued, received>>
tasks == <<run_state, run_result, input_handle, output_handle,
           stop_requested, input, linesRead, rendered, screen>>
vars == <<phonebook, Authorized, BlackListed, minted, held, call,
          queue, rx_closed, enqueued, received,
          run_state, run_result, input_handle, output_handle,
          stop_requested, input, linesRead, rendered, screen>>

\* ------------------------------------------------------------- maps
EmptyMap == [k \in {} |-> 0]
\* HashMap::insert
Insert(m, k, v) == [x \in DOMAIN m \cup {k} |-> IF x = k THEN v ELSE m[x]]
\* HashMap::remove
Remove(m, k) == [x \in DOMAIN m \ {k} |-> m[x]]

Last(s) == s[Len(s)]
IsPrefix(s, t) == Len(s) <= Len(t) /\ \A i \in 1..Len(s) : s[i] = t[i]

\* ------------------------------------------------------------- registry
\* Console::generate_id: DefaultHasher over the string, as a string.
generate_id(identifier) == (5 * identifier + 3) % KeySpace

\* Console::get_plaintext_name
get_plaintext_name(search_name) ==
    IF search_name \in DOMAIN phonebook
    THEN phonebook[search_name][1]
    ELSE "Name not found"

\* Console::get_sender_status
get_sender_status(search_name) ==
    IF search_name \in DOMAIN phonebook
    THEN phonebook[search_name][2]
    ELSE "NotInPhonebook"

\* Console::get_sender_status_by_name
get_sender_status_by_name(search_name) ==
    get_sender_status(generate_id(search_name))

\* Console::get_authorized_names and Console::get_blacklist_names
get_authorized_names == DOMAIN Authorized
get_blacklist_names == DOMAIN BlackListed

\* Console::default
Init ==
    /\ phonebook = EmptyMap
    /\ Authorized = EmptyMap
    /\ BlackListed = EmptyMap
    /\ minted = <<>>
    /\ held = {}
    /\ call = [op |-> "default", arg |-> 0, status |-> "none",
               out |-> "Console"]
    /\ queue = <<>>
    /\ rx_closed = FALSE
    /\ enqueued = <<>>
    /\ received = <<>>
    /\ run_state = "init"
    /\ run_result = "none"
    /\ input_handle = "unspawned"
    /\ output_handle = "unspawned"
    /\ stop_requested = [input_task |-> FALSE, output_task |-> FALSE]
    /\ input = <<>>
    /\ linesRead = <<>>
    /\ rendered = <<>>
    /\ screen = <<>>

\* A faulty variant of new_sender: registering a name again takes away the
\* handles returned earlier for that name.
new_sender_revoking(name) ==
    /\ run_state = "init"
    /\ LET sender == Len(minted) + 1
           signed_name == generate_id(name)
       IN  /\ Authorized' = Insert(Authorized, signed_name, sender)
           /\ phonebook' =
                  Insert(phonebook, signed_name, <<name, "Authorized">>)
           /\ minted' = Append(minted, name)
           /\ held' = {h \in held : minted[h] # name} \cup {sender}
           /\ call' = [op |-> "new_sender", arg |-> name, status |-> "none",
                        out |-> "Sender"]
    /\ UNCHANGED <<BlackListed, channel, tasks>>

\* Console::new_sender(name)
new_sender(name) ==
    /\ run_state = "init"
    /\ LET sender == Len(minted) + 1
           signed_name == generate_id(name)
       IN  /\ Authorized' = Insert(Authorized, signed_name, sender)
           /\ phonebook' =
                  Insert(phonebook, signed_name, <<name, "Authorized">>)
           /\ minted' = Append(minted, name)
           /\ held' = held \cup {sender}
           /\ call' = [op |-> "new_sender", arg |-> name, status |-> "none",
                        out |-> "Sender"]
    /\ UNCHANGED <<BlackListed, channel, tasks>>

\* A faulty variant of add_to_blacklist: when the id is not in Authorized
\* but is in BlackListed, the call moves it back.
add_to_blacklist_toggle(identifier) ==
    /\ run_state = "init"
    /\ LET id == generate_id(identifier)
       IN  IF id \in DOMAIN Authorized
           THEN /\ Authorized' = Remove(Authorized, id)
                /\ BlackListed' = Insert(BlackListed, id, Authorized[id])
                /\ call' = [op |-> "add_to_blacklist", arg |-> identifier,
                            status |-> "none", out |-> "moved"]
           ELSE IF id \in DOMAIN BlackListed
           THEN /\ Authorized' = Insert(Authorized, id, BlackListed[id])
                /\ BlackListed' = Remove(BlackListed, id)
                /\ call' = [op |-> "add_to_blacklist", arg |-> identifier,
                            status |-> "none", out |-> "Sender not found"]
           ELSE /\ UNCHANGED <<Authorized, BlackListed>>
                /\ call' = [op |-> "add_to_blacklist", arg |-> identifier,
                            status |-> "none", out |-> "Sender not found"]
    /\ UNCHANGED <<phonebook, minted, held, channel, tasks>>

\* Console::add_to_blacklist(identifier)
add_to_blacklist(identifier) ==
    /\ run_state = "init"
    /\ LET id == generate_id(identifier)
       IN  IF id \in DOMAIN Authorized
           THEN /\ Authorized' = Remove(Authorized, id)
                /\ BlackListed' = Insert(BlackListed, id, Authorized[id])
                /\ call' = [op |-> "add_to_blacklist", arg |-> identifier,
                            status |-> "none", out |-> "moved"]
           ELSE /\ UNCHANGED <<Authorized, BlackListed>>
                /\ call' = [op |-> "add_to_blacklist", arg |-> identifier,
                            status |-> "none", out |-> "Sender not found"]
    /\ UNCHANGED <<phonebook, minted, held, channel, tasks>>

\* Console::change_sender_status(search_name, new_status)
change_sender_status(search_name, new_status) ==
    /\ run_state = "init"
    /\ LET id == generate_id(search_name)
       IN  IF id \in DOMAIN phonebook
           THEN /\ phonebook' =
                       Insert(phonebook, id, <<phonebook[id][1], new_status>>)
                /\ call' = [op |-> "change_sender_status",
                            arg |-> search_name, status |-> new_status,
                            out |-> "changed"]
           ELSE IF search_name \in DOMAIN phonebook
           THEN /\ phonebook' =
                       Insert(phonebook, id,
                              <<phonebook[search_name][1], new_status>>)
                /\ call' = [op |-> "change_sender_status",
                            arg |-> search_name, status |-> new_status,
                            out |-> "Name not found using id"]
           ELSE /\ UNCHANGED phonebook
                /\ call' = [op |-> "change_sender_status",
                            arg |-> search_name, status |-> new_status,
                            out |-> "Name not found using both plaintext and id"]
    /\ UNCHANGED <<Authorized, BlackListed, minted, held, channel, tasks>>


\* ------------------------------------------------------------- channel
\* The sender whose messages a message record names: Console.tx itself,
\* which run() gives to the input task, is 0; the clone made by the h-th
\* new_sender call is h.
InputTx == 0

\* How many messages the channel accepted from one sender.
SentBy(p) == Len(SelectSeq(enqueued, LAMBDA m : m.from = p))

Message(p, text) == [from |-> p, text |-> text, n |-> SentBy(p) + 1]

\* A faulty variant of HasPermit: the channel takes any number of values.
HasPermitAlways(q) == TRUE

\* Sender::send completes only once the channel has a free slot.
HasPermit(q) == Len(q) < CHANNEL_CAPACITY

\* A faulty variant of Enqueue: the new message goes to the front.
EnqueueFront(q, m) == <<m>> \o q

\* Sender::send once a permit is granted: the value joins the back.
Enqueue(q, m) == Append(q, m)

\* A faulty variant of Front: recv() hands out the newest message.
FrontNewest(q) == q[Len(q)]

\* Receiver::recv on a non-empty channel yields the oldest message.
Front(q) == Head(q)

\* A faulty variant of SendersAlive: some Sender clone is never dropped.
SendersAliveForever == TRUE

\* Senders that still exist: Console.tx until the input task ends, the
\* clones stored in Console.Authorized and Console.BlackListed until run()
\* returns and drops what is left of the Console, and the returned clones.
SendersAlive ==
    \/ input_handle \notin {"finished", "panicked"}
    \/ run_state # "returned"
         /\ DOMAIN Authorized \cup DOMAIN BlackListed # {}
    \/ held # {}

\* A caller sends through the Sender that new_sender returned to it.
handle_send(h, text) ==
    /\ h \in held
    /\ ~rx_closed
    /\ HasPermit(queue)
    /\ queue' = Enqueue(queue, Message(h, text))
    /\ enqueued' = Append(enqueued, Message(h, text))
    /\ UNCHANGED <<rx_closed, received, registry, held, tasks>>

\* A caller drops the Sender that new_sender returned to it.
handle_drop(h) ==
    /\ h \in held
    /\ held' = held \ {h}
    /\ UNCHANGED <<registry, channel, tasks>>

\* ------------------------------------------------------------- run
\* run(Broker): moves rx and tx out of the Console and spawns both tasks.
run ==
    /\ run_state = "init"
    /\ run_state' = "running"
    /\ input_handle' = "read_line"
    /\ output_handle' = "recv"
    /\ call' = [op |-> "run", arg |-> 0, status |-> "none",
                out |-> "spawned"]
    /\ UNCHANGED <<phonebook, Authorized, BlackListed, minted, held, channel,
                   run_result, stop_requested, input, linesRead, rendered,
                   screen>>

\* After end-of-input every further read_line is end-of-input again.
AtEndOfInput ==
    /\ linesRead # <<>>
    /\ Last(linesRead) = [kind |-> "Ok", input |-> EndOfInput]

\* The input task: read_line completes with r and the match picks its arm.
\* The first arm builds the future of send("USER_BREAK_$0uU") and drops it
\* without awaiting it, so nothing reaches the channel there.
input_read(r) ==
    /\ run_state = "running"
    /\ input_handle = "read_line"
    /\ AtEndOfInput => r = [kind |-> "Ok", input |-> EndOfInput]
    /\ linesRead' = Append(linesRead, r)
    /\ IF r.kind = "Ok" /\ IsShutdownKeyword(r.input)
       THEN /\ stop_requested' = [stop_requested EXCEPT !.input_task = TRUE]
            /\ input_handle' = "finished"
            /\ UNCHANGED input
       ELSE IF r.kind = "Ok"
       THEN /\ input' = Trim(r.input)
            /\ input_handle' = "send"
            /\ UNCHANGED stop_requested
       ELSE IF r.kind = "Interrupted"
       THEN /\ stop_requested' = [stop_requested EXCEPT !.input_task = TRUE]
            /\ input_handle' = "finished"
            /\ UNCHANGED input
       ELSE /\ input_handle' = "finished"
            /\ UNCHANGED <<stop_requested, input>>
    /\ UNCHANGED <<registry, held, channel, run_state, run_result,
                   output_handle, rendered, screen>>

\* The input task: user_input.send(input.trim()).await.unwrap()
input_send ==
    /\ run_state = "running"
    /\ input_handle = "send"
    /\ IF rx_closed
       THEN /\ input_handle' = "panicked"
            /\ UNCHANGED <<queue, enqueued>>
       ELSE /\ HasPermit(queue)
            /\ queue' = Enqueue(queue, Message(InputTx, input))
            /\ enqueued' = Append(enqueued, Message(InputTx, input))
            /\ input_handle' = "read_line"
    /\ UNCHANGED <<rx_closed, received, registry, held, run_state,
                   run_result, output_handle, stop_requested, input,
                   linesRead, rendered, screen>>

\* The output task: recv() completes; None becomes the sentinel; the
\* sentinel ends the loop and the task, which drops the Receiver and what
\* is still buffered; anything else is printed in the output zone.
output_recv ==
    /\ run_state = "running"
    /\ output_handle = "recv"
    /\ \/ /\ queue # <<>>
          /\ received' = Append(received, Front(queue))
          /\ IF IsUserBreak(Front(queue).text)
             THEN /\ stop_requested' =
                         [stop_requested EXCEPT !.output_task = TRUE]
                  /\ output_handle' = "finished"
                  /\ rx_closed' = TRUE
                  /\ queue' = <<>>
                  /\ UNCHANGED <<rendered, screen>>
             ELSE /\ rendered' = Append(rendered, Front(queue).text)
                  /\ screen' = Front(queue).text
                  /\ output_handle' = "sleep"
                  /\ queue' = Tail(queue)
                  /\ UNCHANGED <<rx_closed, stop_requested>>
       \/ /\ queue = <<>>
          /\ ~SendersAlive
          /\ stop_requested' = [stop_requested EXCEPT !.output_task = TRUE]
          /\ output_handle' = "finished"
          /\ rx_closed' = TRUE
          /\ UNCHANGED <<queue, received, rendered, screen>>
    /\ UNCHANGED <<enqueued, registry, held, run_state, run_result,
                   input_handle, input, linesRead>>

\* The output task: the two-second sleep ends and the zone is cleared.
output_clear ==
    /\ run_state = "running"
    /\ output_handle = "sleep"
    /\ screen' = <<>>
    /\ output_handle' = "recv"
    /\ UNCHANGED <<registry, held, channel, run_state, run_result,
                   input_handle, stop_requested, input, linesRead, rendered>>

\* What run() returns once try_join! has given `joined`: the match on it
\* is a statement whose value is discarded, and the function ends Ok(()).
RunResult(joined) == "Ok"

\* try_join! completes, with Err when a task panicked, and run returns.
run_return ==
    /\ run_state = "running"
    /\ output_handle = "finished"
    /\ input_handle \in {"finished", "panicked"}
    /\ run_state' = "returned"
    /\ run_result' =
           RunResult(IF input_handle = "panicked" THEN "Err" ELSE "Ok")
    /\ UNCHANGED <<registry, held, channel, input_handle, output_handle,
                   stop_requested, input, linesRead, rendered, screen>>

\* ------------------------------------------------------------- specs
\* Arguments callers pass where a name or an id is expected.
KeyArgs == Names \cup {generate_id(n) : n \in Names}

\* The name registered, and the arguments passed, on a Console that is
\* then run.
BrokerNames == {0}
BrokerKeyArgs == BrokerNames \cup {generate_id(n) : n \in BrokerNames}

\* The lines typed while other producers are sending too.
BrokerReads == {[kind |-> "Ok", input |-> l] : l \in {HelloLine, ExitLine}}

\* The two tasks of run().
TaskNext ==
    \/ input_send
    \/ output_recv
    \/ output_clear
    \/ run_return

\* The program: main() passes Console::default() straight to run().
MainNext ==
    \/ run
    \/ \E r \in ReadResults : Len(linesRead) < MaxReads /\ input_read(r)
    \/ TaskNext

MainSpec == Init /\ [][MainNext]_vars

\* The program under the tokio scheduler: a spawned task that can take a
\* step is eventually polled.
MainFairSpec ==
    /\ Init
    /\ [][MainNext]_vars
    /\ WF_vars(run)
    /\ WF_vars(input_send)
    /\ WF_vars(output_recv)
    /\ WF_vars(output_clear)
    /\ WF_vars(run_return)

\* The Console's registry methods alone, the private ones included.
RegistryNext ==
    \/ \E name \in Names :
           Len(minted) < MaxRegistrations /\ new_sender(name)
    \/ \E identifier \in KeyArgs : add_to_blacklist(identifier)
    \/ \E search_name \in KeyArgs, new_status \in StoredStatuses :
           change_sender_status(search_name, new_status)

RegistrySpec == Init /\ [][RegistryNext]_vars

\* The Console as a library: its public methods, the handles it gives out,
\* then run() on whatever Console results.
Traffic ==
    Len(linesRead) + Len(SelectSeq(enqueued, LAMBDA m : m.from # InputTx))

Next ==
    \/ \E name \in BrokerNames : Len(minted) < MaxHandles /\ new_sender(name)
    \/ \E identifier \in BrokerKeyArgs : add_to_blacklist(identifier)
    \/ \E h \in 1..MaxHandles, text \in HandleTexts :
           Traffic < MaxTraffic /\ handle_send(h, text)
    \/ \E h \in 1..MaxHandles : handle_drop(h)
    \/ run
    \/ \E r \in BrokerReads : Traffic < MaxTraffic /\ input_read(r)
    \/ TaskNext

Spec == Init /\ [][Next]_vars

\* The program with its line source at end of input from the start: every
\* read_line is Ok(0), and the input task forwards "" each time.
FloodNext ==
    \/ run
    \/ Len(linesRead) < MaxFloodReads
          /\ input_read([kind |-> "Ok", input |-> EndOfInput])
    \/ input_send
    \/ output_recv
    \/ output_clear

FloodFairSpec ==
    /\ Init
    /\ [][FloodNext]_vars
    /\ WF_vars(run)
    /\ WF_vars(input_send)
    /\ WF_vars(output_recv)
    /\ WF_vars(output_clear)

\* ------------------------------------------------------------- claims
EndOfInputRead == [kind |-> "Ok", input |-> EndOfInput]
Texts(s) == [i \in 1..Len(s) |-> s[i].text]
HelloText == <<"h","e","l","l","o">>
WorldText == <<"w","o","r","l","d">>
HelloWorldExit ==
    <<[kind |-> "Ok", input |-> HelloLine],
      [kind |-> "Ok", input |-> WorldLine],
      [kind |-> "Ok", input |-> ExitLine]>>

\* C1: once the input task has read a line that trims to "exit" or "quit"
\* in any letter case, the sentinel is a message the channel accepted from
\* it, it has marked itself stopped, and it has left its loop.
C1_KeywordEnqueuesSentinel ==
    (/\ linesRead # <<>>
     /\ Last(linesRead).kind = "Ok"
     /\ IsShutdownKeyword(Last(linesRead).input))
    => /\ input_handle = "finished"
       /\ stop_requested.input_task
       /\ \E i \in 1..Len(enqueued) :
              enqueued[i].from = InputTx /\ enqueued[i].text = USER_BREAK

\* C2: once read_line has reported end-of-input, the input task has marked
\* itself stopped and left its loop, and it has put nothing on the channel
\* except the lines read before, and the sentinel.
C2_EndOfInputStops ==
    \A i \in 1..Len(linesRead) :
        linesRead[i] = EndOfInputRead
        => /\ input_handle = "finished"
           /\ stop_requested.input_task
           /\ SentBy(InputTx) <= i

\* C3: when the lines read are "hello", "world", "exit", the output task
\* prints "hello" and then "world" and nothing else, it stops only after
\* both, nothing is printed once it has stopped, and both tasks end.
C3_HelloWorldExit ==
    /\ [](IsPrefix(linesRead, HelloWorldExit)
            => IsPrefix(rendered, <<HelloText, WorldText>>))
    /\ []((linesRead = HelloWorldExit /\ output_handle = "finished")
            => rendered = <<HelloText, WorldText>>)
    /\ [][output_handle = "finished" => rendered' = rendered]_vars
    /\ (linesRead = HelloWorldExit)
         ~> (/\ input_handle = "finished"
             /\ output_handle = "finished"
             /\ rendered = <<HelloText, WorldText>>)

C3_Witness ==
    /\ linesRead = HelloWorldExit
    /\ input_handle = "finished"
    /\ output_handle = "finished"
    /\ rendered = <<HelloText, WorldText>>

\* C4: a send through a handle whose id is in BlackListed and no longer in
\* Authorized puts no message on the channel.
C4_BlacklistedSendRejected ==
    [][\A h \in held :
          (/\ generate_id(minted[h]) \in DOMAIN BlackListed
           /\ generate_id(minted[h]) \notin DOMAIN Authorized)
          => SentBy(h)' = SentBy(h)]_vars

\* C5: no id is a key of both Authorized and BlackListed.
C5_Disjoint == DOMAIN Authorized \cap DOMAIN BlackListed = {}

\* C6: add_to_blacklist called with an id that is a key of Authorized (as
\* get_authorized_names lists it) removes that id from Authorized and puts
\* it into BlackListed with the same handle.
C6_BlacklistListedId ==
    [][(call'.op = "add_to_blacklist" /\ call'.arg \in get_authorized_names)
         => /\ call'.arg \notin DOMAIN Authorized'
            /\ call'.arg \in DOMAIN BlackListed'
            /\ BlackListed'[call'.arg] = Authorized[call'.arg]]_vars

\* C7: new_sender on a name whose id is blacklisted (by phonebook status or
\* by membership of BlackListed) leaves the status as it was and does not
\* put the id back into Authorized; on a name that is Authorized it leaves
\* the phonebook and the key sets as they were.
C7_RegisterNeverReauthorizes ==
    [][call'.op = "new_sender" =>
         LET id == generate_id(call'.arg)
         IN  /\ (id \in DOMAIN phonebook /\ phonebook[id][2] = "BlackListed")
                  => /\ phonebook'[id][2] = "BlackListed"
                     /\ id \in DOMAIN Authorized' => id \in DOMAIN Authorized
             /\ id \in DOMAIN BlackListed
                  => (id \in DOMAIN Authorized' => id \in DOMAIN Authorized)
             /\ (id \in DOMAIN Authorized /\ phonebook[id][2] = "Authorized")
                  => /\ phonebook' = phonebook
                     /\ DOMAIN Authorized' = DOMAIN Authorized
                     /\ DOMAIN BlackListed' = DOMAIN BlackListed]_vars

\* C8: for each sender, what recv() returned from it is a prefix of what
\* the channel accepted from it, in the order sent, each message once; and
\* what is printed is what was received, in that order, the sentinel apart.
C8_FifoPerProducer ==
    /\ \A p \in 0..MaxHandles :
           LET sent == SelectSeq(enqueued, LAMBDA m : m.from = p)
               got == SelectSeq(received, LAMBDA m : m.from = p)
           IN  /\ IsPrefix(got, sent)
               /\ \A i \in 1..Len(sent) : sent[i].n = i
    /\ IsPrefix(rendered, Texts(received))
    /\ Len(rendered) >= Len(received) - 1

C8_Witness ==
    /\ Len(received) = 3
    /\ Len(rendered) = 3
    /\ received[1].from = received[3].from
    /\ received[1].from # received[2].from

\* The place of the first sentinel among the messages accepted, or one
\* past the end when there is none.
FirstBreak ==
    IF \E i \in 1..Len(enqueued) : IsUserBreak(enqueued[i].text)
    THEN CHOOSE i \in 1..Len(enqueued) :
             /\ IsUserBreak(enqueued[i].text)
             /\ \A j \in 1..(i - 1) : ~IsUserBreak(enqueued[j].text)
    ELSE Len(enqueued) + 1

\* C9: only messages accepted before the first sentinel are printed, in
\* order; and once recv() has returned the sentinel the output task has
\* stopped, having received and printed every message accepted before it.
C9_SentinelInOrder ==
    /\ IsPrefix(rendered, Texts(SubSeq(enqueued, 1, FirstBreak - 1)))
    /\ (\E i \in 1..Len(received) : IsUserBreak(received[i].text))
         => /\ output_handle = "finished"
            /\ received = SubSeq(enqueued, 1, FirstBreak)
            /\ rendered = Texts(SubSeq(enqueued, 1, FirstBreak - 1))

C9_Witness ==
    /\ Len(enqueued) = 3
    /\ FirstBreak = 2
    /\ output_handle = "finished"
    /\ rendered = <<enqueued[1].text>>

\* C10: every message that came from a line the input task forwarded is
\* printed: none of them stops the output task.
C10_UserLineIsPayload ==
    \A i \in 1..Len(received) :
        received[i].from = InputTx
        => i <= Len(rendered) /\ rendered[i] = received[i].text

\* The last read_line() failed: an interrupt or another error.
ReadFailed ==
    /\ linesRead # <<>>
    /\ Last(linesRead).kind \in {"Interrupted", "OtherError"}

\* C11: when read_line fails, with an interrupt or another error, the input
\* task leaves its loop having put on the channel only the lines it read
\* before; the output task then stops, and unless one of those lines was
\* taken for the sentinel it stops on the closed channel, after receiving
\* and printing all of them.
C11_ReadErrorClosesChannel ==
    /\ [](ReadFailed
            => /\ input_handle = "finished"
               /\ SentBy(InputTx) = Len(linesRead) - 1
               /\ enqueued = [i \in 1..(Len(linesRead) - 1) |->
                                 [from |-> InputTx,
                                  text |-> Trim(linesRead[i].input),
                                  n |-> i]])
    /\ []((ReadFailed /\ output_handle = "finished"
             /\ FirstBreak > Len(enqueued))
            => /\ received = enqueued
               /\ rendered = Texts(enqueued))
    /\ ReadFailed ~> (output_handle = "finished")

C11_Witness ==
    /\ ReadFailed
    /\ Len(enqueued) >= 2
    /\ output_handle = "finished"
    /\ received = enqueued
    /\ rendered = Texts(enqueued)

\* C12: when run() has returned, its result is Ok if both tasks ended
\* without failure and Err if one of them panicked.
C12_ResultReflectsTasks ==
    run_state = "returned"
    => run_result = (IF input_handle = "panicked" THEN "Err" ELSE "Ok")

\* C13: the channel never holds more than its capacity; a send on a full
\* channel does not complete, and completes once a slot is free; while the
\* Receiver exists every message accepted is either received or still
\* queued, in order; and the output task keeps catching up with what was
\* accepted.
C13_BoundedNoDrop ==
    /\ [](Len(queue) <= CHANNEL_CAPACITY)
    /\ []((input_handle = "send" /\ ~rx_closed)
            => (ENABLED input_send <=> Len(queue) < CHANNEL_CAPACITY))
    /\ [](~rx_closed => enqueued = received \o queue)
    /\ []<>(output_handle = "finished" \/ received = enqueued)

C13_Witness ==
    /\ Len(queue) = CHANNEL_CAPACITY
    /\ input_handle = "send"
    /\ output_handle = "recv"

\* The ids new_sender can have generated.
Ids == {generate_id(n) : n \in Names}

RegistryUnchanged ==
    /\ Authorized' = Authorized
    /\ BlackListed' = BlackListed
    /\ phonebook' = phonebook

\* C14: add_to_blacklist for an id that is not a key of Authorized, whether
\* the id is the one the call derives from its argument or a generated id
\* passed as the argument, never registered or already blacklisted, leaves
\* Authorized, BlackListed and the phonebook as they were and reports
\* "Sender not found".
C14_BlacklistMissIsNoOp ==
    [][call'.op = "add_to_blacklist" =>
         /\ generate_id(call'.arg) \notin DOMAIN Authorized
              => RegistryUnchanged /\ call'.out = "Sender not found"
         /\ (call'.arg \in Ids /\ call'.arg \notin DOMAIN Authorized)
              => RegistryUnchanged /\ call'.out = "Sender not found"]_vars

C14_Witness ==
    /\ call.op = "add_to_blacklist"
    /\ call.out = "Sender not found"
    /\ generate_id(call.arg) \in DOMAIN BlackListed
    /\ generate_id(call.arg) \notin DOMAIN Authorized

\* The identities registered so far.
MintedIds == {generate_id(minted[i]) : i \in 1..Len(minted)}

\* C15: a new_sender call returns a new handle and takes none away, also
\* when the name was registered before; every handle not dropped by its
\* holder can send while the Receiver exists and the channel has room; and
\* however often a name is registered, the phonebook has one entry per
\* registered id, and after the call the id is a key of Authorized.
C15_SameNameHandlesIndependent ==
    /\ [][Len(minted') > Len(minted) =>
            LET sender == Len(minted')
                id == generate_id(minted'[sender])
            IN  /\ sender \notin held
                /\ held' = held \cup {sender}
                /\ id \in DOMAIN Authorized'
                /\ phonebook'[id] = <<minted'[sender], "Authorized">>
                /\ DOMAIN phonebook' = MintedIds']_vars
    /\ [](\A h \in held :
            (~rx_closed /\ HasPermit(queue))
              => ENABLED handle_send(h, PingText))

C15_Witness ==
    /\ Len(minted) = 2
    /\ minted[1] = minted[2]
    /\ Cardinality(DOMAIN phonebook) = 1
    /\ Cardinality(DOMAIN Authorized) = 1
    /\ \E i, j \in 1..Len(enqueued) :
          /\ i < j
          /\ enqueued[i].from = 2
          /\ enqueued[j].from = 1

\* C16: after an add_to_blacklist call that moved an id from Authorized to
\* BlackListed, get_sender_status of that id and get_sender_status_by_name
\* of its name are BlackListed.
C16_BlacklistUpdatesStatus ==
    (call.op = "add_to_blacklist" /\ call.out = "moved")
    => /\ get_sender_status(generate_id(call.arg)) = "BlackListed"
       /\ get_sender_status_by_name(call.arg) = "BlackListed"

\* C17: every key of Authorized has a phonebook entry whose status is
\* Authorized.
C17_AuthorizedInSync ==
    \A id \in DOMAIN Authorized : get_sender_status(id) = "Authorized"

\* C18: change_sender_status(key, s) sets to s the status of the entry the
\* key designates and keeps its name, when the key is a name whose id is a
\* phonebook key and when the key is itself a phonebook key; when it is
\* neither, the phonebook stays as it was.
C18_SetStatusByNameOrId ==
    [][call'.op = "change_sender_status" =>
         LET key == call'.arg
             id == generate_id(call'.arg)
         IN  /\ id \in DOMAIN phonebook
                  => phonebook'[id] = <<phonebook[id][1], call'.status>>
             /\ (id \notin DOMAIN phonebook /\ key \in DOMAIN phonebook)
                  => phonebook'[key] = <<phonebook[key][1], call'.status>>
             /\ (id \notin DOMAIN phonebook /\ key \notin DOMAIN phonebook)
                  => phonebook' = phonebook]_vars

\* C19: the phonebook's keys are exactly the ids generated from the names
\* new_sender was called with.
C19_PhonebookKeysAreMinted == DOMAIN phonebook = MintedIds

\* C20: while run() is under way, once the input task has ended, nothing is
\* queued and no caller holds a handle any more, the output task's recv()
\* completes: it is not left waiting on a channel nobody will send on.
C20_OutputNotLeftWaiting ==
    (/\ run_state = "running"
     /\ input_handle \in {"finished", "panicked"}
     /\ output_handle = "recv"
     /\ queue = <<>>
     /\ held = {})
    => ENABLED output_recv

=============================================================================
